---- MODULE Spec2Model ----
(***************************************************************************)
(* Cosmic Explorer (src/main.js): the adaptive quality controller.         *)
(*                                                                         *)
(* The per-frame callback animate() calls updateFPS(), which counts frames *)
(* and, when a one-second window has elapsed, steps the quality level      *)
(* (low / medium / high / ultra); updateQualitySettings() derives the      *)
(* shader uniforms from the level, the device class and the window size.   *)
(*                                                                         *)
(* Numbers.  Timestamps are whole milliseconds.  The float uniforms are    *)
(* kept in fixed point, in millionths (Micro(1, 4) is 0.25); the window    *)
(* sizes of the model make every product of the code exact in that unit.   *)
(***************************************************************************)
EXTENDS Integers, Sequences, FiniteSets, TLC

VARIABLES
    pc,             \* "boot" before main() has run, "running" afterwards
    now,            \* timestamp of the latest frame callback
    isMobile,       \* main.js:35
    qualityLevel,   \* main.js:36
    batteryMode,    \* main.js:37
    lastFrameTime,  \* main.js:38
    frameCount,     \* main.js:39
    fps,            \* main.js:40
    uniforms,       \* main.js:123-131 (quality_factor, iteration_count, detail_level)
    innerWidth,     \* window.innerWidth
    innerHeight,    \* window.innerHeight
    getBattery,     \* the navigator.getBattery() promise: "pending" until its callback has run, else "idle"
    visible,        \* the page is visible (the rendering session is active)
    emitted,        \* history: number of FPS readings emitted so far
    lastRender,     \* history: timestamp of the latest rendered frame
    skips,          \* history: number of frames skipped since the latest rendered frame
    trend,          \* history: how FPS-window evaluations have moved the level since the latest manual or battery action
    ev,             \* history: what the latest handler did
    powerPreference,    \* the powerPreference option init() gave the renderer ("none" before init)
    batteryControl,     \* quality_controls.batteryMode as init() initialised it, the value the GUI battery control starts with
    clock,          \* Date.now() (ms since the page was loaded)
    rateLimit,      \* AI_CONFIG.rateLimit (callHistory, lastReset)
    apiStatus,      \* AI_CONFIG.apiStatus (isWorking, errorCount, usingFallback, hasServerlessAPI)
    isLoadingFact,  \* main.js:50
    factCache,      \* main.js:51, the topics that have a cached fact
    call,           \* the generateCosmicFact call in flight: where it waits and its topic
    tracked,        \* history: the timestamps of all calls trackAPICall recorded
    factEv,         \* history: the latest step of the fact generation and its outcome
    is_transitioning,   \* main.js:33
    shader_index,       \* main.js:34
    transition,     \* the animation chain of performTransformation: its phase, the start value of the phase and the two uniforms it animates
    shaderEv,       \* history: the latest step of the transformation, the numbers of triggers accepted and of changes of shader_index
    vm,             \* the data of the chat simulation's Vue instance; msgChain holds the callbacks queued on the promise chain, messages the number of messages sent
    timers,         \* the dialog ids of the say() calls whose delays have not elapsed
    chatEv          \* history: the latest step of the chat simulation, the number of say() calls, whether the prompt has ever been open while the author was typing

\* The quality controller and the frame loop
controllerVars ==
    <<pc, now, isMobile, qualityLevel, batteryMode, lastFrameTime, frameCount,
      fps, uniforms, innerWidth, innerHeight, getBattery, visible, emitted,
      lastRender, skips, trend, ev, powerPreference, batteryControl>>

\* The fact generation and its rate limiter
factVars ==
    <<clock, rateLimit, apiStatus, isLoadingFact, factCache, call, tracked, factEv>>

\* The shader transformation
shaderVars == <<is_transitioning, shader_index, transition, shaderEv>>

\* The chat simulation
chatVars == <<vm, timers, chatEv>>

vars == <<controllerVars, factVars, shaderVars, chatVars>>

----------------------------------------------------------------------------
\* Bounds of the model

\* Frame callbacks are generated up to this timestamp (ms).
MaxTime == 1100

\* Frame callbacks of the long run (a full window of 60 Hz frames, then a
\* pause) are generated up to this timestamp (ms).
MaxLongTime == 1930

\* Frame callbacks of the 1 ms tick run are generated up to this timestamp (ms).
MaxTickTime == 1100

\* Frame callbacks of the reading-stream scenario are generated up to this
\* timestamp (ms).
MaxStreamTime == 6000

\* Frame callbacks of the starved run (one callback per second) are generated
\* up to this timestamp (ms).
MaxStarvedTime == 62000

\* In the run with stale timestamps, frame callbacks are generated while
\* frameCount is below this number.
MaxStaleFrames == 6

\* Frame callbacks of the constant-reading run are generated up to this
\* timestamp (ms).
MaxSteadyTime == 6000

\* The constant-reading run has readings below this number.
MaxSteadyReading == 61

\* Date.now() advances up to this value (ms).
MaxClock == 80000

\* Facts are requested for the topics 1 .. MaxTopics.
MaxTopics == 11

\* performTransformation is accepted at most this number of times.
MaxTriggers == 8

\* The user answers (respond, ask) at most this number of times.
MaxSays == 2

\* Intervals between two frame callbacks (ms): a 60 Hz frame and a pause
\* (hidden tab, stalled page) of one second.
Dt == {16, 1000}

\* The FPS readings of the scenario.
Stream == <<58, 58, 59>>

\* The steps of Date.now() between two steps of the fact generation (ms).
Ticks == {20000}

\* How the fetch of callServerlessAPI ends: a fact, an HTTP error status, a
\* network failure (TypeError).
Outcomes == {"fact", "http", "network"}

\* Window sizes (innerWidth, innerHeight): full HD and QHD.
Sizes == {<<1920, 1080>>, <<2560, 1440>>}

----------------------------------------------------------------------------
\* Values

Levels == {"low", "medium", "high", "ultra"}

\* A level name that is none of the four.
BadLevels == {"extreme"}

NoReading == -1

\* n/d as a fixed-point number, in millionths.
Micro(n, d) == (n * 1000000) \div d

\* Rank of a level in the order low < medium < high < ultra.
Rank(l) == CASE l = "low" -> 0 [] l = "medium" -> 1 [] l = "high" -> 2
             [] l = "ultra" -> 3 [] OTHER -> -1

Abs(x) == IF x < 0 THEN -x ELSE x

\* const uniforms = { ... quality_factor: 1.0, iteration_count: 100.0, detail_level: 1.0 }
InitUniforms == [quality_factor |-> Micro(1, 1),
                 iteration_count |-> Micro(100, 1),
                 detail_level |-> Micro(1, 1)]

\* The record of a handler run: the handler, its argument, the level before it
\* ran, the FPS reading it emitted, whether it rendered, and its outcome (no
\* handler of the program has a failure path, so the outcome is always "ok"),
\* and whether it scheduled the 'ULTRA MODE ACTIVATED' notification (only the
\* handlers that apply a level chosen by the user can: they set the field).
Event(op, arg, from, reading, rendered) ==
    [op |-> op, arg |-> arg, from |-> from, reading |-> reading,
     rendered |-> rendered, result |-> "ok", welcome |-> FALSE]

----------------------------------------------------------------------------
\* updateQualitySettings()

\* QualityBase with the quality_factor assignment of case 'high' missing.
QualityBaseDrift(u, level, mobile) ==
    CASE level = "low" ->
            [quality_factor |-> Micro(25, 100),
             iteration_count |-> IF mobile THEN Micro(15, 1) ELSE Micro(25, 1),
             detail_level |-> Micro(3, 10)]
      [] level = "medium" ->
            [quality_factor |-> Micro(5, 10),
             iteration_count |-> IF mobile THEN Micro(25, 1) ELSE Micro(40, 1),
             detail_level |-> Micro(6, 10)]
      [] level = "high" ->
            [u EXCEPT !.iteration_count = IF mobile THEN Micro(40, 1) ELSE Micro(60, 1),
                      !.detail_level = Micro(8, 10)]
      [] level = "ultra" ->
            [quality_factor |-> Micro(1, 1),
             iteration_count |-> IF mobile THEN Micro(50, 1) ELSE Micro(75, 1),
             detail_level |-> Micro(15, 10)]
      [] OTHER -> u

\* QualityBase with the mobile and the desktop iteration counts exchanged.
QualityBaseMobileHeavy(u, level, mobile) ==
    CASE level = "low" ->
            [quality_factor |-> Micro(25, 100),
             iteration_count |-> IF mobile THEN Micro(25, 1) ELSE Micro(15, 1),
             detail_level |-> Micro(3, 10)]
      [] level = "medium" ->
            [quality_factor |-> Micro(5, 10),
             iteration_count |-> IF mobile THEN Micro(40, 1) ELSE Micro(25, 1),
             detail_level |-> Micro(6, 10)]
      [] level = "high" ->
            [quality_factor |-> Micro(8, 10),
             iteration_count |-> IF mobile THEN Micro(60, 1) ELSE Micro(40, 1),
             detail_level |-> Micro(8, 10)]
      [] level = "ultra" ->
            [quality_factor |-> Micro(1, 1),
             iteration_count |-> IF mobile THEN Micro(75, 1) ELSE Micro(50, 1),
             detail_level |-> Micro(15, 10)]
      [] OTHER -> u

\* The switch on qualityLevel: it assigns the three uniforms for the four
\* level names and has no default branch.
QualityBase(u, level, mobile) ==
    CASE level = "low" ->
            [quality_factor |-> Micro(25, 100),
             iteration_count |-> IF mobile THEN Micro(15, 1) ELSE Micro(25, 1),
             detail_level |-> Micro(3, 10)]
      [] level = "medium" ->
            [quality_factor |-> Micro(5, 10),
             iteration_count |-> IF mobile THEN Micro(25, 1) ELSE Micro(40, 1),
             detail_level |-> Micro(6, 10)]
      [] level = "high" ->
            [quality_factor |-> Micro(8, 10),
             iteration_count |-> IF mobile THEN Micro(40, 1) ELSE Micro(60, 1),
             detail_level |-> Micro(8, 10)]
      [] level = "ultra" ->
            [quality_factor |-> Micro(1, 1),
             iteration_count |-> IF mobile THEN Micro(50, 1) ELSE Micro(75, 1),
             detail_level |-> Micro(15, 10)]
      [] OTHER -> u

\* HighResScale with iteration_count *= 0.75.
HighResScaleThreeQuarters(u, mobile, w, h) ==
    IF w * h > 2073600 /\ ~mobile
    THEN [u EXCEPT !.quality_factor = (@ * 7) \div 10,
                   !.iteration_count = (@ \div 4) * 3]
    ELSE u

\* if (isHighRes && !isMobile) { quality_factor *= 0.7; iteration_count *= 0.8; }
HighResScale(u, mobile, w, h) ==
    IF w * h > 2073600 /\ ~mobile
    THEN [u EXCEPT !.quality_factor = (@ * 7) \div 10,
                   !.iteration_count = (@ * 8) \div 10]
    ELSE u

\* quality_factor *= Math.min(1.0, 1920 / window.innerWidth)
ResolutionScale(u, w) ==
    IF w > 1920
    THEN [u EXCEPT !.quality_factor = (@ * 1920) \div w]
    ELSE u

\* const wasUltra = uniforms.detail_level.value >= 2.0; ... case 'ultra':
\* if (!wasUltra) setTimeout(() => showDetailedNotification('ULTRA MODE
\* ACTIVATED', ...), 500).  u holds the uniforms before the call.
WelcomeScheduled(u, level) ==
    level = "ultra" /\ ~(u.detail_level >= Micro(2, 1))

UpdateQualitySettings(u, level, mobile, w, h) ==
    ResolutionScale(HighResScale(QualityBase(u, level, mobile), mobile, w, h), w)

----------------------------------------------------------------------------
\* updateFPS(timestamp)

\* Demote with the high test as "fps < 60, to low".
DemoteHardFall(level, f, battery) ==
    IF ~battery
    THEN IF f < 25 /\ level = "ultra" THEN "high"
         ELSE IF f < 60 /\ level = "high" THEN "low"
         ELSE IF f < 15 /\ level = "medium" THEN "low"
         ELSE level
    ELSE level

\* Demote with the three tests as independent ifs: a demotion falls through to
\* the next test.
DemoteCascade(level, f, battery) ==
    LET a == IF f < 25 /\ level = "ultra" THEN "high" ELSE level
        b == IF f < 20 /\ a = "high" THEN "medium" ELSE a
        c == IF f < 15 /\ b = "medium" THEN "low" ELSE b
    IN  IF ~battery THEN c ELSE level

\* if (!batteryMode) { if (fps < 25 && ultra) high; else if (fps < 20 && high)
\* medium; else if (fps < 15 && medium) low; }
Demote(level, f, battery) ==
    IF ~battery
    THEN IF f < 25 /\ level = "ultra" THEN "high"
         ELSE IF f < 20 /\ level = "high" THEN "medium"
         ELSE IF f < 15 /\ level = "medium" THEN "low"
         ELSE level
    ELSE level

\* Promote with the medium -> high test as fps >= 58.
PromoteAtLeast(level, f, battery) ==
    IF f > 55 /\ level = "low" /\ ~battery THEN "medium"
    ELSE IF f >= 58 /\ level = "medium" /\ ~battery THEN "high"
    ELSE level

\* Promote with a third step, high -> ultra.
PromoteToUltra(level, f, battery) ==
    IF f > 55 /\ level = "low" /\ ~battery THEN "medium"
    ELSE IF f > 58 /\ level = "medium" /\ ~battery THEN "high"
    ELSE IF f > 58 /\ level = "high" /\ ~battery THEN "ultra"
    ELSE level

\* Promote with the low -> medium test as fps > 58.
PromoteLate(level, f, battery) ==
    IF f > 58 /\ level = "low" /\ ~battery THEN "medium"
    ELSE IF f > 58 /\ level = "medium" /\ ~battery THEN "high"
    ELSE level

\* Promote without the !batteryMode tests.
PromoteInBattery(level, f, battery) ==
    IF f > 55 /\ level = "low" THEN "medium"
    ELSE IF f > 58 /\ level = "medium" THEN "high"
    ELSE level

\* if (fps > 55 && low && !batteryMode) medium;
\* else if (fps > 58 && medium && !batteryMode) high;
Promote(level, f, battery) ==
    IF f > 55 /\ level = "low" /\ ~battery THEN "medium"
    ELSE IF f > 58 /\ level = "medium" /\ ~battery THEN "high"
    ELSE level

\* BatteryOverride stepping one level down instead of forcing low.
BatteryOverrideOneStep(level, f, battery) ==
    IF battery /\ f < 30 /\ level # "low"
    THEN (IF level = "ultra" THEN "high" ELSE IF level = "high" THEN "medium" ELSE "low")
    ELSE level

\* if (batteryMode && fps < 30 && qualityLevel !== 'low') low;
BatteryOverride(level, f, battery) ==
    IF battery /\ f < 30 /\ level # "low" THEN "low" ELSE level

\* The three blocks run one after the other on the same reading; each block
\* that changes the level calls updateQualitySettings().
AdaptQuality(st, f, mobile, w, h) ==
    LET l1 == Demote(st.qualityLevel, f, st.batteryMode)
        u1 == IF l1 # st.qualityLevel
              THEN UpdateQualitySettings(st.uniforms, l1, mobile, w, h)
              ELSE st.uniforms
        l2 == Promote(l1, f, st.batteryMode)
        u2 == IF l2 # l1 THEN UpdateQualitySettings(u1, l2, mobile, w, h) ELSE u1
        l3 == BatteryOverride(l2, f, st.batteryMode)
        u3 == IF l3 # l2 THEN UpdateQualitySettings(u2, l3, mobile, w, h) ELSE u2
    IN  [st EXCEPT !.qualityLevel = l3, !.uniforms = u3]

\* st is the record of the variables the frame callback writes, with the
\* reading emitted by the call in st.reading.
UpdateFPS(st, timestamp, mobile, w, h) ==
    LET counted == st.frameCount + 1
    IN  IF timestamp - st.lastFrameTime >= 1000
        THEN AdaptQuality([st EXCEPT !.fps = counted,
                                     !.frameCount = 0,
                                     !.lastFrameTime = timestamp,
                                     !.reading = counted],
                          counted, mobile, w, h)
        ELSE [st EXCEPT !.frameCount = counted]

----------------------------------------------------------------------------
\* animate(timestamp)

\* SkipFrame with the 60 fps target in battery mode too.
SkipFrameNoBattery(st, timestamp, mobile, highRefresh) ==
    LET sinceLast == timestamp - st.lastFrameTime
    IN  \/ 100 * sinceLast < 1567
        \/ mobile /\ st.qualityLevel = "low" /\ sinceLast < 20
        \/ highRefresh /\ ~st.batteryMode /\ sinceLast < 12

\* The three early returns of the frame limiter, on the state updateFPS left.
\* targetFrameTime - 1 is 32 ms in battery mode and 15.67 ms otherwise.
SkipFrame(st, timestamp, mobile, highRefresh) ==
    LET sinceLast == timestamp - st.lastFrameTime
    IN  \/ 100 * sinceLast < (IF st.batteryMode THEN 3200 ELSE 1567)
        \/ mobile /\ st.qualityLevel = "low" /\ sinceLast < 20
        \/ highRefresh /\ ~st.batteryMode /\ sinceLast < 12

\* The history of level changes by evaluations after one more evaluation that
\* moved the rank by d: "up" or "down" while every move so far had that
\* direction, "settled" once an evaluation has left the level unchanged,
\* "mixed" after a move against the direction or after having settled.
Trend(t, d) ==
    CASE t = "mixed" -> "mixed"
      [] d = 0 -> "settled"
      [] d > 0 -> IF t \in {"none", "up"} THEN "up" ELSE "mixed"
      [] OTHER -> IF t \in {"none", "down"} THEN "down" ELSE "mixed"

AnimateFrame(st, timestamp, mobile, w, h, highRefresh) ==
    LET s1 == UpdateFPS(st, timestamp, mobile, w, h)
    IN  IF SkipFrame(s1, timestamp, mobile, highRefresh)
        THEN s1
        ELSE [s1 EXCEPT !.lastFrameTime = timestamp, !.rendered = TRUE]

\* The variables a frame callback reads and writes, before the call.
FrameState ==
    [qualityLevel |-> qualityLevel, batteryMode |-> batteryMode,
     lastFrameTime |-> lastFrameTime, frameCount |-> frameCount, fps |-> fps,
     uniforms |-> uniforms, reading |-> NoReading, rendered |-> FALSE]

\* The variables take the values the frame callback left in st.
FrameEffect(st, op) ==
    /\ qualityLevel' = st.qualityLevel
    /\ lastFrameTime' = st.lastFrameTime
    /\ frameCount' = st.frameCount
    /\ fps' = st.fps
    /\ uniforms' = st.uniforms
    /\ emitted' = IF st.reading # NoReading THEN emitted + 1 ELSE emitted
    /\ lastRender' = IF st.rendered THEN st.lastFrameTime ELSE lastRender
    /\ skips' = IF st.rendered THEN 0 ELSE skips + 1
    /\ trend' = IF st.reading # NoReading
                THEN Trend(trend, Rank(st.qualityLevel) - Rank(qualityLevel))
                ELSE trend
    /\ ev' = Event(op, "none", qualityLevel, st.reading, st.rendered)

----------------------------------------------------------------------------
\* cycleQuality()

\* qualities[(qualities.indexOf(qualityLevel) + 1) % qualities.length]
Qualities == <<"low", "medium", "high", "ultra">>

IndexOf(seq, x) ==
    IF \E i \in 1..Len(seq) : seq[i] = x
    THEN (CHOOSE i \in 1..Len(seq) : seq[i] = x) - 1
    ELSE -1

\* CycleNext without the wrap-around.
CycleNextNoWrap(level) ==
    Qualities[IF IndexOf(Qualities, level) + 1 < Len(Qualities)
              THEN IndexOf(Qualities, level) + 2
              ELSE Len(Qualities)]

CycleNext(level) == Qualities[((IndexOf(Qualities, level) + 1) % Len(Qualities)) + 1]

----------------------------------------------------------------------------
\* State machine

Init ==
    /\ pc = "boot"
    /\ now = 0
    /\ isMobile = FALSE
    /\ qualityLevel = "high"
    /\ batteryMode = FALSE
    /\ lastFrameTime = 0
    /\ frameCount = 0
    /\ fps = 60
    /\ uniforms = InitUniforms
    /\ \E size \in Sizes : innerWidth = size[1] /\ innerHeight = size[2]
    /\ getBattery = "idle"
    /\ visible = TRUE
    /\ emitted = 0
    /\ lastRender = 0
    /\ skips = 0
    /\ trend = "none"
    /\ ev = Event("none", "none", "high", NoReading, FALSE)
    /\ powerPreference = "none"
    /\ batteryControl = FALSE
    /\ clock = 0
    /\ rateLimit = [callHistory |-> <<>>, lastReset |-> 0]
    /\ apiStatus = [isWorking |-> FALSE, errorCount |-> 0, usingFallback |-> FALSE,
                    hasServerlessAPI |-> FALSE]
    /\ isLoadingFact = FALSE
    /\ factCache = {}
    /\ call = [pc |-> "idle", topic |-> 0]
    /\ tracked = <<>>
    /\ factEv = [op |-> "none", result |-> "none", check |-> "none"]
    /\ is_transitioning = FALSE
    /\ shader_index = 0
    /\ transition = [phase |-> "idle", start |-> 0,
                     interstellar_mix |-> 0, transition_progress |-> 0]
    /\ shaderEv = [op |-> "none", triggers |-> 0, toggles |-> 0]
    /\ vm = [dialogs |-> "null", isTyping |-> FALSE, hasPrompt |-> FALSE,
             msgChain |-> <<>>, lastDialog |-> "null", messages |-> 0]
    /\ timers = <<>>
    /\ chatEv = [op |-> "none", says |-> 0, overlap |-> FALSE]

\* init(): powerPreference: batteryMode ? "low-power" : "high-performance"
PowerPreference(battery) == IF battery THEN "low-power" ELSE "high-performance"

\* main(): detectMobile(), updateQualitySettings(), init(), animate(0).  The
\* callback detectMobile() gives to navigator.getBattery().then() cannot run
\* before main() has returned.
\* mobile is the outcome of the user-agent test, batteryApi whether
\* navigator.getBattery exists.
MainWith(mobile, batteryApi, highRefresh) ==
    /\ pc = "boot"
    /\ pc' = "running"
    /\ isMobile' = mobile
    /\ getBattery' = IF batteryApi THEN "pending" ELSE "idle"
    /\ powerPreference' = PowerPreference(batteryMode)
    /\ batteryControl' = batteryMode
    /\ LET st == [FrameState EXCEPT !.uniforms =
                    UpdateQualitySettings(uniforms, qualityLevel, mobile,
                                          innerWidth, innerHeight)]
       IN  FrameEffect(AnimateFrame(st, 0, mobile, innerWidth, innerHeight, highRefresh),
                       "main")
    /\ UNCHANGED <<now, batteryMode, innerWidth, innerHeight, visible,
                   factVars, shaderVars, chatVars>>

Main == \E mobile \in BOOLEAN, batteryApi \in BOOLEAN, highRefresh \in BOOLEAN :
            MainWith(mobile, batteryApi, highRefresh)

\* requestAnimationFrame calls animate dt ms after the previous callback.
AnimateAt(dt, limit) ==
    /\ pc = "running"
    /\ now + dt <= limit
    /\ now' = now + dt
    /\ \E highRefresh \in BOOLEAN :
          FrameEffect(AnimateFrame(FrameState, now + dt, isMobile,
                                   innerWidth, innerHeight, highRefresh),
                      "animate")
    /\ UNCHANGED <<pc, isMobile, batteryMode, innerWidth, innerHeight,
                   getBattery, visible, powerPreference, batteryControl,
                   factVars, shaderVars, chatVars>>

Animate == \E dt \in Dt : AnimateAt(dt, MaxTime)

\* navigator.getBattery().then(battery => ...): saving is
\* battery.level < 0.3 || !battery.charging.
BatteryResolved ==
    /\ pc = "running"
    /\ getBattery = "pending"
    /\ getBattery' = "idle"
    /\ \E saving \in BOOLEAN :
          /\ batteryMode' = saving
          /\ qualityLevel' = IF saving THEN "low" ELSE qualityLevel
          /\ uniforms' = IF saving
                         THEN UpdateQualitySettings(uniforms, "low", isMobile,
                                                    innerWidth, innerHeight)
                         ELSE uniforms
          /\ ev' = Event("battery", "none", qualityLevel, NoReading, FALSE)
    /\ trend' = "none"
    /\ UNCHANGED <<pc, now, isMobile, lastFrameTime, frameCount, fps,
                   innerWidth, innerHeight, visible, emitted, lastRender,
                   skips, powerPreference, batteryControl, factVars,
                   shaderVars, chatVars>>

\* The double-tap handler of setupTouchGestures(), installed on mobile only.
CycleQuality ==
    /\ pc = "running"
    /\ isMobile
    /\ qualityLevel' = CycleNext(qualityLevel)
    /\ uniforms' = UpdateQualitySettings(uniforms, CycleNext(qualityLevel), isMobile,
                                         innerWidth, innerHeight)
    /\ ev' = [Event("cycle", "none", qualityLevel, NoReading, FALSE)
                EXCEPT !.welcome = WelcomeScheduled(uniforms, CycleNext(qualityLevel))]
    /\ trend' = "none"
    /\ UNCHANGED <<pc, now, isMobile, batteryMode, lastFrameTime, frameCount,
                   fps, innerWidth, innerHeight, getBattery, visible, emitted,
                   lastRender, skips, powerPreference, batteryControl,
                   factVars, shaderVars, chatVars>>

\* The onChange handler of the GUI quality control.
SetQuality(value) ==
    /\ pc = "running"
    /\ qualityLevel' = value
    /\ uniforms' = UpdateQualitySettings(uniforms, value, isMobile,
                                         innerWidth, innerHeight)
    /\ ev' = [Event("gui", value, qualityLevel, NoReading, FALSE)
                EXCEPT !.welcome = WelcomeScheduled(uniforms, value)]
    /\ trend' = "none"
    /\ UNCHANGED <<pc, now, isMobile, batteryMode, lastFrameTime, frameCount,
                   fps, innerWidth, innerHeight, getBattery, visible, emitted,
                   lastRender, skips, powerPreference, batteryControl,
                   factVars, shaderVars, chatVars>>

\* The control is a drop-down of the four level names.
GuiQuality == \E value \in Levels : SetQuality(value)

\* GuiBatteryMode assigning the flag only.
GuiBatteryModeFlagOnly ==
    /\ pc = "running"
    /\ \E value \in BOOLEAN :
          /\ batteryMode' = value
          /\ qualityLevel' = qualityLevel
          /\ uniforms' = uniforms
          /\ ev' = Event("batteryGui", "none", qualityLevel, NoReading, FALSE)
    /\ trend' = "none"
    /\ UNCHANGED <<pc, now, isMobile, lastFrameTime, frameCount, fps,
                   innerWidth, innerHeight, getBattery, visible, emitted,
                   lastRender, skips, powerPreference, batteryControl,
                   factVars, shaderVars, chatVars>>

\* The onChange handler of the GUI battery control.
GuiBatteryMode ==
    /\ pc = "running"
    /\ \E value \in BOOLEAN :
          /\ batteryMode' = value
          /\ qualityLevel' = IF value THEN "low" ELSE qualityLevel
          /\ uniforms' = IF value
                         THEN UpdateQualitySettings(uniforms, "low", isMobile,
                                                    innerWidth, innerHeight)
                         ELSE uniforms
          /\ ev' = Event("batteryGui", "none", qualityLevel, NoReading, FALSE)
    /\ trend' = "none"
    /\ UNCHANGED <<pc, now, isMobile, lastFrameTime, frameCount, fps,
                   innerWidth, innerHeight, getBattery, visible, emitted,
                   lastRender, skips, powerPreference, batteryControl,
                   factVars, shaderVars, chatVars>>

\* onWindowResize(): the window has a new size; the handler updates the
\* renderer and the resolution uniform only.
OnWindowResize ==
    /\ pc = "running"
    /\ \E size \in Sizes :
          /\ <<innerWidth, innerHeight>> # size
          /\ innerWidth' = size[1]
          /\ innerHeight' = size[2]
    /\ ev' = Event("resize", "none", qualityLevel, NoReading, FALSE)
    /\ UNCHANGED <<pc, now, isMobile, qualityLevel, batteryMode, lastFrameTime,
                   frameCount, fps, uniforms, getBattery, visible, emitted,
                   lastRender, skips, trend, powerPreference, batteryControl,
                   factVars, shaderVars, chatVars>>

Next ==
    \/ Main
    \/ Animate
    \/ BatteryResolved
    \/ CycleQuality
    \/ GuiQuality
    \/ GuiBatteryMode
    \/ OnWindowResize

Spec == Init /\ [][Next]_vars

\* The long run: frames, battery detection and the GUI controls, up to
\* MaxLongTime.
AnimateLong == \E dt \in Dt : AnimateAt(dt, MaxLongTime)

NextLong ==
    \/ Main
    \/ AnimateLong
    \/ BatteryResolved
    \/ GuiQuality
    \/ GuiBatteryMode

SpecLong == Init /\ [][NextLong]_vars

\* The tick run: from the initial state, frame callbacks 1 ms apart.
AnimateTick == AnimateAt(1, MaxTickTime)

NextTick ==
    \/ Main
    \/ AnimateTick

SpecTick == Init /\ [][NextTick]_vars

\* The scenario: a desktop device, battery saving off, the level set to medium
\* right after start, then 60 Hz frames and one-second pauses placed so that
\* the readings emitted are those of Stream.
MainDesktop == \E highRefresh \in BOOLEAN : MainWith(FALSE, FALSE, highRefresh)

SelectMedium == ev.op = "main" /\ SetQuality("medium")

StreamFrame ==
    /\ ev.op # "main"
    /\ emitted < Len(Stream)
    /\ frameCount + 1 < Stream[emitted + 1]
    /\ AnimateAt(16, MaxStreamTime)

StreamPause ==
    /\ ev.op # "main"
    /\ emitted < Len(Stream)
    /\ frameCount + 1 = Stream[emitted + 1]
    /\ AnimateAt(1000, MaxStreamTime)

NextStream ==
    \/ MainDesktop
    \/ SelectMedium
    \/ StreamFrame
    \/ StreamPause

SpecStream == Init /\ [][NextStream]_vars

\* The GUI handler called with any string (lil-gui's setValue takes any value).
SetAnyQuality == \E value \in Levels \cup BadLevels : SetQuality(value)

NextInvalid ==
    \/ Main
    \/ SetAnyQuality
    \/ CycleQuality
    \/ OnWindowResize

SpecInvalid == Init /\ [][NextInvalid]_vars

\* The starved run: the host delivers one frame callback per second.
AnimateStarved == AnimateAt(1000, MaxStarvedTime)

NextStarved ==
    \/ Main
    \/ AnimateStarved
    \/ GuiQuality
    \/ GuiBatteryMode

SpecStarved == Init /\ [][NextStarved]_vars

\* The page is hidden or shown again.  The program installs no
\* visibilitychange listener: no variable of the program changes.
PageHidden ==
    /\ pc = "running"
    /\ visible
    /\ visible' = FALSE
    /\ ev' = Event("hidden", "none", qualityLevel, NoReading, FALSE)
    /\ UNCHANGED <<pc, now, isMobile, qualityLevel, batteryMode, lastFrameTime,
                   frameCount, fps, uniforms, innerWidth, innerHeight,
                   getBattery, emitted, lastRender, skips, trend,
                   powerPreference, batteryControl, factVars, shaderVars,
                   chatVars>>

PageShown ==
    /\ pc = "running"
    /\ ~visible
    /\ visible' = TRUE
    /\ ev' = Event("shown", "none", qualityLevel, NoReading, FALSE)
    /\ UNCHANGED <<pc, now, isMobile, qualityLevel, batteryMode, lastFrameTime,
                   frameCount, fps, uniforms, innerWidth, innerHeight,
                   getBattery, emitted, lastRender, skips, trend,
                   powerPreference, batteryControl, factVars, shaderVars,
                   chatVars>>

\* animate() starts with requestAnimationFrame(animate): main() (through
\* animate(0)) and every frame callback request the next frame.
RequestsFrame(op) == op \in {"main", "animate"}

\* The session run: frames while the page is hidden and shown.  The callback
\* requested before the page was hidden is never cancelled, and a host need
\* not pause frame callbacks of a hidden page.
NextSession ==
    \/ Main
    \/ Animate
    \/ PageHidden
    \/ PageShown

SpecSession == Init /\ [][NextSession]_vars

\* animate called with a timestamp that is not greater than the previous one.
AnimateStale ==
    /\ frameCount < MaxStaleFrames
    /\ \E back \in {0, 16} : now - back >= 0 /\ AnimateAt(0 - back, MaxTime)

AnimateFresh == frameCount < MaxStaleFrames /\ Animate

NextStale ==
    \/ Main
    \/ AnimateFresh
    \/ AnimateStale

SpecStale == Init /\ [][NextStale]_vars

\* The constant-reading run: a desktop device; the level and the battery mode
\* are chosen in the GUI before the first frame callback; then 60 Hz frames and
\* one-second pauses, the first pause anywhere and the later ones placed so
\* that every reading repeats the first.
SteadyLevel == now = 0 /\ frameCount = 1 /\ GuiQuality

SteadyBatteryMode == now = 0 /\ frameCount = 1 /\ GuiBatteryMode

SteadyFrame ==
    /\ frameCount + 1 < (IF emitted = 0 THEN MaxSteadyReading ELSE fps)
    /\ AnimateAt(16, MaxSteadyTime)

SteadyPause ==
    /\ emitted = 0 \/ frameCount + 1 = fps
    /\ AnimateAt(1000, MaxSteadyTime)

NextSteady ==
    \/ MainDesktop
    \/ SteadyLevel
    \/ SteadyBatteryMode
    \/ SteadyFrame
    \/ SteadyPause

SpecSteady == Init /\ [][NextSteady]_vars

----------------------------------------------------------------------------
\* Fact generation: generateCosmicFact(), tryGenerateWithFreeAPIs(),
\* callServerlessAPI(), checkRateLimit(), trackAPICall()

\* AI_CONFIG.rateLimit.maxCallsPerMinute
maxCallsPerMinute == 10

\* The topics: 1, 2, ...  A request is for a topic already cached or for the
\* first topic not yet requested (the others differ from it by name only).
Topics == 1..MaxTopics

NextTopics == {t \in Topics : t \in factCache \/ \A s \in 1..(t - 1) : s \in factCache}

\* checkRateLimit() up to its return statement: the rateLimit object it leaves.
CheckRateLimit(rl, t) ==
    LET r1 == IF t - rl.lastReset > 60000
              THEN [callHistory |-> <<>>, lastReset |-> t]
              ELSE rl
    IN  [r1 EXCEPT !.callHistory = SelectSeq(@, LAMBDA ts : ts > t - 60000)]

\* return callHistory.length < maxCallsPerMinute
UnderLimit(rl) == Len(rl.callHistory) < maxCallsPerMinute

\* trackAPICall()
TrackAPICall(rl, t) == [rl EXCEPT !.callHistory = Append(@, t)]

FactEvent(op, result, check) == [op |-> op, result |-> result, check |-> check]

\* Date.now() advances.  The fetch is aborted after 15 s
\* (AbortSignal.timeout(15000)), less than a step of the clock: no step
\* falls within a fetch.
Tick ==
    /\ call.pc = "idle"
    /\ \E d \in Ticks : clock + d <= MaxClock /\ clock' = clock + d
    /\ factEv' = FactEvent("tick", "none", "none")
    /\ UNCHANGED <<rateLimit, apiStatus, isLoadingFact, factCache, call, tracked>>
    /\ UNCHANGED <<controllerVars, shaderVars, chatVars>>

\* GenerateCosmicFact with the isLoadingFact guard left out.
GenerateCosmicFactUnguarded(topic) ==
    /\ IF topic \in factCache
       THEN /\ factEv' = FactEvent("generate", "cached", "none")
            /\ isLoadingFact' = FALSE
            /\ UNCHANGED <<rateLimit, apiStatus, factCache, call>>
       ELSE LET rl == CheckRateLimit(rateLimit, clock)
            IN  /\ rateLimit' = rl
                /\ IF ~UnderLimit(rl)
                   THEN /\ factEv' = FactEvent("generate", "static", "refused")
                        /\ factCache' = factCache \cup {topic}
                        /\ isLoadingFact' = FALSE
                        /\ UNCHANGED <<apiStatus, call>>
                   ELSE IF apiStatus.errorCount < 5
                   THEN /\ factEv' = FactEvent("generate", "pending", "allowed")
                        /\ isLoadingFact' = TRUE
                        /\ call' = [pc |-> "fetch", topic |-> topic]
                        /\ UNCHANGED <<apiStatus, factCache>>
                   ELSE /\ factEv' = FactEvent("generate", "static", "allowed")
                        /\ apiStatus' = [apiStatus EXCEPT !.usingFallback = TRUE]
                        /\ factCache' = factCache \cup {topic}
                        /\ isLoadingFact' = FALSE
                        /\ UNCHANGED call
    /\ UNCHANGED <<clock, tracked>>
    /\ UNCHANGED <<controllerVars, shaderVars, chatVars>>

\* generateCosmicFact(topic) up to its first await of a host event (the fetch)
\* or, when it needs none, to its end: the guard, the cache, then
\* tryGenerateWithFreeAPIs with checkRateLimit().  The topic is a string of
\* AI_CONFIG.cosmicTopics, so nothing on this path throws.
GenerateCosmicFact(topic) ==
    /\ IF isLoadingFact
       THEN /\ factEv' = FactEvent("generate", "null", "none")
            /\ UNCHANGED <<rateLimit, apiStatus, isLoadingFact, factCache, call>>
       ELSE IF topic \in factCache
       THEN /\ factEv' = FactEvent("generate", "cached", "none")
            /\ isLoadingFact' = FALSE
            /\ UNCHANGED <<rateLimit, apiStatus, factCache, call>>
       ELSE LET rl == CheckRateLimit(rateLimit, clock)
            IN  /\ rateLimit' = rl
                /\ IF ~UnderLimit(rl)
                   THEN /\ factEv' = FactEvent("generate", "static", "refused")
                        /\ factCache' = factCache \cup {topic}
                        /\ isLoadingFact' = FALSE
                        /\ UNCHANGED <<apiStatus, call>>
                   ELSE IF apiStatus.errorCount < 5
                   THEN /\ factEv' = FactEvent("generate", "pending", "allowed")
                        /\ isLoadingFact' = TRUE
                        /\ call' = [pc |-> "fetch", topic |-> topic]
                        /\ UNCHANGED <<apiStatus, factCache>>
                   ELSE /\ factEv' = FactEvent("generate", "static", "allowed")
                        /\ apiStatus' = [apiStatus EXCEPT !.usingFallback = TRUE]
                        /\ factCache' = factCache \cup {topic}
                        /\ isLoadingFact' = FALSE
                        /\ UNCHANGED call
    /\ UNCHANGED <<clock, tracked>>
    /\ UNCHANGED <<controllerVars, shaderVars, chatVars>>

GenerateFact == \E topic \in NextTopics : GenerateCosmicFact(topic)

\* The fetch of callServerlessAPI has ended and the call runs to its end: on a
\* fact trackAPICall() and the status of a working API; otherwise the catch
\* block of callServerlessAPI, null, and the static fallback.  The fact (API
\* or static) is cached and the finally block clears isLoadingFact.
FetchDone ==
    /\ call.pc = "fetch"
    /\ \E outcome \in Outcomes :
          IF outcome = "fact"
          THEN /\ rateLimit' = TrackAPICall(rateLimit, clock)
               /\ tracked' = Append(tracked, clock)
               /\ apiStatus' = [isWorking |-> TRUE, errorCount |-> 0,
                                usingFallback |-> FALSE, hasServerlessAPI |-> TRUE]
               /\ factEv' = FactEvent("fetch", "api", "none")
          ELSE /\ apiStatus' = [apiStatus EXCEPT
                                   !.errorCount = @ + 1,
                                   !.usingFallback = TRUE,
                                   !.hasServerlessAPI =
                                       IF outcome = "network" THEN FALSE ELSE @]
               /\ factEv' = FactEvent("fetch", "static", "none")
               /\ UNCHANGED <<rateLimit, tracked>>
    /\ factCache' = factCache \cup {call.topic}
    /\ isLoadingFact' = FALSE
    /\ call' = [pc |-> "idle", topic |-> 0]
    /\ UNCHANGED clock
    /\ UNCHANGED <<controllerVars, shaderVars, chatVars>>

NextFacts ==
    \/ Tick
    \/ GenerateFact
    \/ FetchDone

SpecFacts == Init /\ [][NextFacts]_vars

----------------------------------------------------------------------------
\* performTransformation()

\* THREE.MathUtils.lerp(a, b, progress), progress in percent.
Lerp(a, b, percent) == a + ((b - a) \div 100) * percent

\* The progress values Math.min(elapsed / duration, 1.0) of the frames of a
\* phase, in percent: under way and complete.
Progress == {50, 100}

\* interstellar_mix rises to 1.0, transition_progress goes to 1.0 (tunnel to
\* galaxy) or 0.0 (galaxy to tunnel), a hold, interstellar_mix falls to 0.0.
PhaseTarget(phase, index) ==
    CASE phase = "mix_in" -> Micro(1, 1)
      [] phase = "progress" -> IF index = 0 THEN Micro(1, 1) ELSE 0
      [] OTHER -> 0

\* The phase that follows a phase of the chain.
PhaseAfter(phase) ==
    CASE phase = "mix_in" -> "progress"
      [] phase = "progress" -> "hold"
      [] phase = "hold" -> "mix_out"
      [] OTHER -> "idle"

\* animate_phase(uniform, ...) starts: start_value = uniform.value, and the
\* first do_animate() runs at once with progress 0.
StartPhase(tr, phase) ==
    [tr EXCEPT !.phase = phase,
               !.start = IF phase = "progress" THEN tr.transition_progress
                         ELSE tr.interstellar_mix]

\* PerformTransformation without the is_transitioning guard.
PerformTransformationUnguarded ==
    /\ shaderEv.triggers < MaxTriggers
    /\ is_transitioning' = TRUE
    /\ transition' = StartPhase(transition, "mix_in")
    /\ shaderEv' = [shaderEv EXCEPT !.op = "trigger", !.triggers = @ + 1]
    /\ UNCHANGED shader_index
    /\ UNCHANGED <<controllerVars, factVars, chatVars>>

\* The GUI button or the gesture calls performTransformation().
PerformTransformation ==
    /\ shaderEv.triggers < MaxTriggers
    /\ IF is_transitioning
       THEN /\ shaderEv' = [shaderEv EXCEPT !.op = "trigger"]
            /\ UNCHANGED <<is_transitioning, transition>>
       ELSE /\ is_transitioning' = TRUE
            /\ transition' = StartPhase(transition, "mix_in")
            /\ shaderEv' = [shaderEv EXCEPT !.op = "trigger", !.triggers = @ + 1]
    /\ UNCHANGED shader_index
    /\ UNCHANGED <<controllerVars, factVars, chatVars>>

\* A frame of do_animate(): the uniform of the phase is set to the lerp of the
\* progress; at progress 1.0 onComplete() starts the next phase or the hold
\* or, after the last phase, sets shader_index and clears is_transitioning.
TransformFrame ==
    /\ transition.phase \in {"mix_in", "progress", "mix_out"}
    /\ \E percent \in Progress :
          LET value == Lerp(transition.start,
                            PhaseTarget(transition.phase, shader_index), percent)
              moved == IF transition.phase = "progress"
                       THEN [transition EXCEPT !.transition_progress = value]
                       ELSE [transition EXCEPT !.interstellar_mix = value]
              last == percent = 100 /\ transition.phase = "mix_out"
          IN  /\ transition' =
                    IF percent < 100 THEN moved
                    ELSE IF PhaseAfter(transition.phase) \in {"hold", "idle"}
                    THEN [moved EXCEPT !.phase = PhaseAfter(transition.phase)]
                    ELSE StartPhase(moved, PhaseAfter(transition.phase))
              /\ shader_index' = IF last THEN 1 - shader_index ELSE shader_index
              /\ is_transitioning' = IF last THEN FALSE ELSE is_transitioning
              /\ shaderEv' = [shaderEv EXCEPT !.op = "frame",
                                              !.toggles = IF last THEN @ + 1 ELSE @]
    /\ UNCHANGED <<controllerVars, factVars, chatVars>>

\* setTimeout(..., interstellar_hold / 2) fires and starts the last phase.
HoldElapsed ==
    /\ transition.phase = "hold"
    /\ transition' = StartPhase(transition, "mix_out")
    /\ shaderEv' = [shaderEv EXCEPT !.op = "hold"]
    /\ UNCHANGED <<is_transitioning, shader_index>>
    /\ UNCHANGED <<controllerVars, factVars, chatVars>>

NextShader ==
    \/ PerformTransformation
    \/ TransformFrame
    \/ HoldElapsed

SpecShader == Init /\ [][NextShader]_vars

----------------------------------------------------------------------------
\* The chat simulation (src/unnamed/part_000; part_001 has the same methods)

\* The dialogs of dialog.json, which is not part of the sources: a greeting,
\* a dialog of two messages chained to a third dialog by nextAuthor, and that
\* third dialog.  msgs is the number of messages of the dialog; a nextAuthor
\* is written as the sequence of its ids (empty for null).
Dialogs ==
    [d \in {"0000", "a", "b"} |->
        CASE d = "0000" -> [msgs |-> 1, nextAuthor |-> <<>>]
          [] d = "a" -> [msgs |-> 2, nextAuthor |-> <<"b">>]
          [] d = "b" -> [msgs |-> 1, nextAuthor |-> <<>>]]

\* The nextAuthor of the answers the user can give: a dialog id, an array of
\* dialog ids, null.
Answers == {<<"a">>, <<"0000", "b">>, <<>>}

\* n callbacks sending an author message (delay(700), then sendMsg).
Messages(n) == [i \in 1..n |-> [kind |-> "msg", dialog |-> "none"]]

RECURSIVE AppendDialog(_, _)

\* appendDialog(id): for an array every id in turn; for null nothing (the
\* responses of lastDialog are cleared); for an id isTyping = true, the
\* messages of the dialog are queued on msgChain, then either the nextAuthor
\* dialog is appended or the completion callback (lastDialog = dialog,
\* isTyping = false) is queued behind what msgChain holds at that moment.
AppendDialog(v, ids) ==
    IF ids = <<>> THEN v
    ELSE LET dialog == Dialogs[Head(ids)]
             v1 == [v EXCEPT !.isTyping = TRUE,
                             !.msgChain = @ \o Messages(dialog.msgs)]
             v2 == IF dialog.nextAuthor # <<>>
                   THEN AppendDialog(v1, dialog.nextAuthor)
                   ELSE [v1 EXCEPT !.msgChain =
                            Append(@, [kind |-> "done", dialog |-> Head(ids)])]
         IN  AppendDialog(v2, Tail(ids))

RECURSIVE Settle(_)

\* The completion callbacks at the head of the queue run as soon as the
\* promise they were queued on is resolved.
Settle(v) ==
    IF v.msgChain # <<>> /\ Head(v.msgChain).kind = "done"
    THEN Settle([v EXCEPT !.lastDialog = Head(v.msgChain).dialog,
                          !.isTyping = FALSE,
                          !.msgChain = Tail(@)])
    ELSE v

\* The history after a step that leaves the data v.
ChatEvent(op, says, v) ==
    [op |-> op, says |-> says,
     overlap |-> chatEv.overlap \/ (v.hasPrompt /\ v.isTyping)]

\* mounted(): the $.getJSON callback stores the dialogs and appends '0000'.
Mounted ==
    /\ vm.dialogs = "null"
    /\ vm' = AppendDialog([vm EXCEPT !.dialogs = "loaded"], <<"0000">>)
    /\ chatEv' = ChatEvent("mounted", chatEv.says, vm')
    /\ UNCHANGED timers
    /\ UNCHANGED <<controllerVars, factVars, shaderVars>>

\* togglePrompt(toShow)
TogglePrompt ==
    /\ \E toShow \in BOOLEAN :
          vm' = IF vm.isTyping THEN vm ELSE [vm EXCEPT !.hasPrompt = toShow]
    /\ chatEv' = ChatEvent("toggle", chatEv.says, vm')
    /\ UNCHANGED timers
    /\ UNCHANGED <<controllerVars, factVars, shaderVars>>

\* respond(response) / ask(fromUser): say(content, nextAuthor) closes the
\* prompt and starts the delays.  The user answers from the open prompt.
Say ==
    /\ vm.dialogs = "loaded"
    /\ vm.hasPrompt
    /\ chatEv.says < MaxSays
    /\ \E dialogId \in Answers : timers' = Append(timers, dialogId)
    /\ vm' = [vm EXCEPT !.hasPrompt = FALSE]
    /\ chatEv' = ChatEvent("say", chatEv.says + 1, vm')
    /\ UNCHANGED <<controllerVars, factVars, shaderVars>>

\* The delays of a say() call have elapsed (200 ms, the user's message, 300
\* ms): appendDialog(dialogId).
SayElapsed ==
    /\ timers # <<>>
    /\ timers' = Tail(timers)
    /\ vm' = Settle(AppendDialog([vm EXCEPT !.messages = @ + 1], Head(timers)))
    /\ chatEv' = ChatEvent("appendDialog", chatEv.says, vm')
    /\ UNCHANGED <<controllerVars, factVars, shaderVars>>

\* The callback at the head of msgChain has sent its author message.
MessageSent ==
    /\ vm.msgChain # <<>>
    /\ Head(vm.msgChain).kind = "msg"
    /\ vm' = Settle([vm EXCEPT !.messages = @ + 1, !.msgChain = Tail(@)])
    /\ chatEv' = ChatEvent("sendMsg", chatEv.says, vm')
    /\ UNCHANGED timers
    /\ UNCHANGED <<controllerVars, factVars, shaderVars>>

NextChat ==
    \/ Mounted
    \/ TogglePrompt
    \/ Say
    \/ SayElapsed
    \/ MessageSent

SpecChat == Init /\ [][NextChat]_vars

----------------------------------------------------------------------------
\* Properties

\* A frame callback has just emitted an FPS reading.
Evaluated == ev.op = "animate" /\ ev.reading # NoReading

\* C1 (as claimed): the window start W (lastFrameTime) is changed by nothing
\* other than the emission of an FPS reading.
C1_WindowStartMovedOnlyByReading ==
    [][lastFrameTime' # lastFrameTime => emitted' = emitted + 1]_vars

\* C2 (as claimed): with frame callbacks 1 ms apart from the initial state (the
\* tick run), the call at 1000 ms has emitted the one reading of the window and
\* the reading equals the number of calls made, 0 ms to 1000 ms included.
C2_TickRunEmitsOneReading ==
    /\ now >= 1000 => emitted = 1
    /\ (Evaluated /\ emitted = 1) => ev.reading = now + 1

\* C3 (as claimed): one FPS-window evaluation changes the level by at most one
\* rank, whatever the level, the reading and the battery-saving flag.
C3_AtMostOneRank ==
    [][emitted' # emitted => Abs(Rank(qualityLevel') - Rank(qualityLevel)) <= 1]_vars

\* C3 (amended): with battery saving off one FPS-window evaluation changes the
\* level by at most one rank; with battery saving on it leaves the level
\* unchanged or sets it to low.
C3_AtMostOneRankUnlessBattery ==
    [][emitted' # emitted =>
          IF batteryMode
          THEN qualityLevel' \in {qualityLevel, "low"}
          ELSE Abs(Rank(qualityLevel') - Rank(qualityLevel)) <= 1]_vars

\* An evaluation with battery saving off has taken ultra one rank down on a
\* reading that is below every demotion threshold.
C3_Witness ==
    /\ Evaluated /\ ~batteryMode
    /\ ev.reading < 15 /\ ev.from = "ultra" /\ qualityLevel = "high"

\* C4: when batterySaving is true, the reading is below 30 and the level is
\* not low, one FPS-window evaluation leaves the level at low.
C4_BatteryOverrideWins ==
    [][(emitted' # emitted /\ batteryMode /\ fps' < 30 /\ qualityLevel # "low")
          => qualityLevel' = "low"]_vars

\* An evaluation in battery mode has taken ultra to low.
C4_Witness ==
    /\ Evaluated /\ batteryMode
    /\ ev.reading < 30 /\ ev.from = "ultra" /\ qualityLevel = "low"

\* The transition table of the automatic rules with battery saving off.
C5_Table(level, f) ==
    CASE level = "ultra" /\ f < 25 -> "high"
      [] level = "high" /\ f < 20 -> "medium"
      [] level = "medium" /\ f < 15 -> "low"
      [] level = "low" /\ f > 55 -> "medium"
      [] level = "medium" /\ f > 58 -> "high"
      [] OTHER -> level

\* C5: with battery saving off, one FPS-window evaluation maps (level, fps) to
\* the new level as the table says, one step at most.
C5_AutomaticTable ==
    [][(emitted' # emitted /\ ~batteryMode)
          => qualityLevel' = C5_Table(qualityLevel, fps')]_vars

\* An evaluation with battery saving off has promoted low to medium.
C5_Witness ==
    /\ Evaluated /\ ~batteryMode
    /\ ev.reading > 55 /\ ev.from = "low" /\ qualityLevel = "medium"

\* C6: the level becomes ultra only by a manual action (cycleQuality or the
\* GUI quality control), never by a frame, an evaluation or a battery change.
C6_UltraManualOnly ==
    [][(qualityLevel' = "ultra" /\ qualityLevel # "ultra")
          => ev'.op \in {"cycle", "gui"}]_vars

\* An evaluation on a reading above every promotion threshold has left high
\* at high.
C6_Witness ==
    /\ Evaluated /\ ~batteryMode
    /\ ev.reading > 58 /\ ev.from = "high" /\ qualityLevel = "high"

\* C7 (as claimed): in the scenario the level is high from the first reading
\* (58) on.
C7_PromotedAtFirst58 ==
    emitted >= 1 => qualityLevel = "high"

\* C7 (amended): in the scenario the level is medium after the readings 58 and
\* 58 and high after the reading 59, the first reading above 58.
C7_PromotedAtFirstAbove58 ==
    /\ emitted \in {1, 2} => qualityLevel = "medium"
    /\ emitted = 3 => qualityLevel = "high"

\* The third reading of the scenario, 59, has promoted medium to high.
C7_Witness ==
    /\ Evaluated /\ emitted = 3 /\ ev.reading = 59
    /\ ev.from = "medium" /\ qualityLevel = "high"

\* The successor of a level in the manual cycle.
C8_Successor(level) ==
    CASE level = "low" -> "medium"
      [] level = "medium" -> "high"
      [] level = "high" -> "ultra"
      [] level = "ultra" -> "low"

\* C8: cycleQuality takes the level to its successor in low -> medium -> high
\* -> ultra -> low, whatever the FPS history and the battery mode; three more
\* cycles visit the other levels in that order and return to the start.
C8_ManualCycle ==
    [][ev'.op = "cycle" =>
          LET l1 == qualityLevel'
              l2 == CycleNext(l1)
              l3 == CycleNext(l2)
              l4 == CycleNext(l3)
          IN  /\ l1 = C8_Successor(qualityLevel)
              /\ l2 = C8_Successor(l1)
              /\ l3 = C8_Successor(l2)
              /\ l4 = qualityLevel
              /\ {l1, l2, l3, l4} = Levels]_vars

\* A cycle in battery mode, after an FPS reading, has wrapped ultra to low.
C8_Witness ==
    /\ ev.op = "cycle" /\ ev.from = "ultra" /\ qualityLevel = "low"
    /\ batteryMode /\ emitted > 0

\* C9 (as claimed): the GUI quality handler called with a name that is none of
\* the four fails with InvalidQualityLevel and leaves the level and the three
\* render parameters as they were.
C9_InvalidLevelRejected ==
    [][(ev'.op = "gui" /\ ev'.arg \notin Levels)
          => /\ ev'.result = "InvalidQualityLevel"
             /\ qualityLevel' = qualityLevel
             /\ uniforms' = uniforms]_vars

\* Prior values of the render parameters.
C10_Priors ==
    {InitUniforms, uniforms,
     [quality_factor |-> 0, iteration_count |-> 0, detail_level |-> 0],
     [quality_factor |-> Micro(2, 1), iteration_count |-> Micro(150, 1),
      detail_level |-> Micro(2, 1)]}

\* The latest handler called updateQualitySettings().
C10_Derived ==
    \/ ev.op \in {"main", "gui", "cycle"}
    \/ ev.op \in {"battery", "batteryGui"} /\ batteryMode
    \/ Evaluated /\ ev.from # qualityLevel

\* C10: after a handler that calls updateQualitySettings(), the render
\* parameters are what one more call yields, from the current values (no
\* drift) and from any other prior values.
C10_DerivationIdempotent ==
    C10_Derived =>
        \A prior \in C10_Priors :
            UpdateQualitySettings(prior, qualityLevel, isMobile,
                                  innerWidth, innerHeight) = uniforms

\* The GUI has re-applied the level already active on a high-resolution
\* desktop, where both scaling steps multiply the parameters.
C10_Witness ==
    /\ ev.op = "gui" /\ ev.from = qualityLevel /\ qualityLevel = "high"
    /\ ~isMobile /\ innerWidth * innerHeight > 2073600

\* C11: quality_factor and detail_level lie in [0, 2]; iteration_count is a
\* positive whole number not above 100.
C11_ParametersInRange ==
    /\ uniforms.quality_factor >= 0 /\ uniforms.quality_factor <= Micro(2, 1)
    /\ uniforms.detail_level >= 0 /\ uniforms.detail_level <= Micro(2, 1)
    /\ uniforms.iteration_count > 0 /\ uniforms.iteration_count <= Micro(100, 1)
    /\ uniforms.iteration_count % Micro(1, 1) = 0

\* The parameters of ultra on a high-resolution desktop, where both scaling
\* steps have multiplied them (75 * 0.8 iterations).
C11_Witness ==
    /\ ev.op = "gui" /\ qualityLevel = "ultra"
    /\ ~isMobile /\ innerWidth * innerHeight > 2073600
    /\ uniforms.iteration_count = Micro(60, 1)

\* C12 (as claimed): a frame callback at least the target interval (16.67 ms,
\* 33 ms in battery mode) after lastFrameTime renders and sets lastFrameTime
\* to its timestamp, and a frame callback that skips leaves lastFrameTime
\* unchanged.
C12_PacerRule ==
    [][ev'.op = "animate" =>
          /\ 100 * (now' - lastFrameTime) >= (IF batteryMode THEN 3300 ELSE 1667)
                => (ev'.rendered /\ lastFrameTime' = now')
          /\ ~ev'.rendered => lastFrameTime' = lastFrameTime]_vars

\* The interval of the claimed target rate, in hundredths of a millisecond:
\* 30 fps in battery mode, 45 fps on mobile, 60 fps on desktop.
C13_ClaimedInterval ==
    IF batteryMode THEN 3333 ELSE IF isMobile THEN 2222 ELSE 1667

\* C13 (as claimed): a frame is rendered only if the interval of the target
\* rate (battery 30 fps, mobile 45 fps, desktop 60 fps) has elapsed since the
\* last rendered frame.
C13_ClaimedRates ==
    [][(ev'.op = "animate" /\ ev'.rendered)
          => 100 * (now' - lastRender) >= C13_ClaimedInterval]_vars

\* C13 (amended): a frame is rendered only if targetFrameTime - 1 ms has
\* elapsed since the last rendered frame, with targetFrameTime 33 ms in battery
\* mode and 16.67 ms otherwise, on mobile as on desktop; on mobile at level low
\* only if 20 ms have elapsed as well.
C13_CodeRates ==
    [][(ev'.op = "animate" /\ ev'.rendered)
          => /\ 100 * (now' - lastRender) >= (IF batteryMode THEN 3200 ELSE 1567)
             /\ (isMobile /\ qualityLevel' = "low") => now' - lastRender >= 20]_vars

\* A frame has been rendered in battery mode.
C13_Witness ==
    ev.op = "animate" /\ ev.rendered /\ batteryMode /\ lastRender = now

\* C14 (as claimed): a resize leaves the level unchanged and the render
\* parameters at what updateQualitySettings yields for the level and the new
\* window size.
C14_ResizeRederives ==
    [][ev'.op = "resize" =>
          /\ qualityLevel' = qualityLevel
          /\ uniforms' = UpdateQualitySettings(uniforms, qualityLevel, isMobile,
                                               innerWidth', innerHeight')]_vars

\* C15 (as claimed): the parameters derived in battery mode are lower than the
\* parameters derived for the same level, device class and window size with
\* battery mode off.
C15_BatteryReduces ==
    (C10_Derived /\ batteryMode) =>
        LET off == UpdateQualitySettings(uniforms, qualityLevel, isMobile,
                                         innerWidth, innerHeight)
        IN  /\ uniforms.quality_factor < off.quality_factor
            /\ uniforms.iteration_count < off.iteration_count
            /\ uniforms.detail_level < off.detail_level

\* The parameters of the current level and window size on a mobile and on a
\* desktop device: those in effect on the device at hand, those
\* updateQualitySettings yields on the other.
C16_OnMobile ==
    IF isMobile THEN uniforms
    ELSE UpdateQualitySettings(uniforms, qualityLevel, TRUE, innerWidth, innerHeight)

C16_OnDesktop ==
    IF isMobile
    THEN UpdateQualitySettings(uniforms, qualityLevel, FALSE, innerWidth, innerHeight)
    ELSE uniforms

\* C16 (as claimed): for every level and window size each derived parameter
\* on mobile is at most the parameter on desktop.
C16_MobileAtMostDesktop ==
    C10_Derived =>
        /\ C16_OnMobile.quality_factor <= C16_OnDesktop.quality_factor
        /\ C16_OnMobile.iteration_count <= C16_OnDesktop.iteration_count
        /\ C16_OnMobile.detail_level <= C16_OnDesktop.detail_level

\* C16 (amended): for every level and window size the derived iteration_count
\* and detail_level on mobile are at most those on desktop; quality_factor on
\* mobile is at most that on desktop when the window area is at most 1920x1080.
C16_MobileAtMostDesktopUpToFullHD ==
    C10_Derived =>
        /\ innerWidth * innerHeight <= 2073600 =>
              C16_OnMobile.quality_factor <= C16_OnDesktop.quality_factor
        /\ C16_OnMobile.iteration_count <= C16_OnDesktop.iteration_count
        /\ C16_OnMobile.detail_level <= C16_OnDesktop.detail_level

\* A mobile device has derived the parameters of ultra (50 iterations).
C16_Witness ==
    /\ ev.op = "cycle" /\ isMobile /\ qualityLevel = "ultra"
    /\ C16_OnDesktop.iteration_count >= Micro(60, 1)
    /\ uniforms.iteration_count = Micro(50, 1)

\* The threshold of the emergency demotion: the target FPS.
C17_Threshold == IF batteryMode THEN 30 ELSE 60

\* C17 (as claimed): when a frame is skipped and the number of consecutive
\* skipped frames exceeds the threshold, the level goes down by exactly one
\* rank and the count of consecutive skips is reset to 0.
C17_EmergencyDemotion ==
    [][(ev'.op = "animate" /\ ~ev'.rendered /\ skips + 1 > C17_Threshold
            /\ qualityLevel # "low")
          => /\ Rank(qualityLevel') = Rank(qualityLevel) - 1
             /\ skips' = 0]_vars

\* C18 (as claimed): while the page is hidden no requestAnimationFrame(animate)
\* is issued.
C18_NoFrameRequestAfterEnd ==
    [][~visible => ~RequestsFrame(ev'.op)]_vars

\* C19 (as claimed): the first frame callback after a suspension (a second or
\* more without callbacks) sets lastFrameTime to its timestamp, leaves the
\* level unchanged and emits no reading that counts frames from before the
\* suspension.
C19_ResumeWithoutReaction ==
    [][(ev'.op = "animate" /\ now' - now >= 1000)
          => /\ lastFrameTime' = now'
             /\ qualityLevel' = qualityLevel
             /\ ev'.reading # NoReading => ev'.reading <= 1]_vars

\* C20 (as claimed): a frame callback whose timestamp is not greater than the
\* previous one fails with InvalidTimestamp and leaves the window start, the
\* frame counter and the last reading unchanged.
C20_StaleTimestampRejected ==
    [][(ev'.op = "animate" /\ now' <= now)
          => /\ ev'.result = "InvalidTimestamp"
             /\ lastFrameTime' = lastFrameTime
             /\ frameCount' = frameCount
             /\ fps' = fps]_vars

\* C21: with battery mode on and a reading of 30 or more, an FPS-window
\* evaluation leaves the level (and the render parameters) unchanged, for
\* every level and every such reading.
C21_BatteryModeSkipsRules ==
    [][(emitted' # emitted /\ batteryMode /\ fps' >= 30)
          => qualityLevel' = qualityLevel /\ uniforms' = uniforms]_vars

\* An evaluation in battery mode on a reading above the first promotion
\* threshold has left low at low.
C21_Witness ==
    /\ Evaluated /\ batteryMode
    /\ ev.reading > 55 /\ ev.from = "low" /\ qualityLevel = "low"

\* C22: in the constant-reading run (battery flag fixed, no manual action once
\* frames have started) the evaluations move the level in one direction only,
\* and once an evaluation has left the level unchanged every later one does:
\* no level that has been left is entered again.
C22_NoOscillation == trend # "mixed"

\* The reading 59 has been emitted three times: it has taken low to medium and
\* medium to high, and has then left high unchanged.
C22_Witness ==
    /\ Evaluated /\ emitted = 3 /\ ev.reading = 59 /\ ~batteryMode
    /\ qualityLevel = "high" /\ ev.from = "high" /\ trend = "settled"

\* C24 (as claimed): a handler that applies a level chosen by the user
\* schedules the 'ULTRA MODE ACTIVATED' notification exactly when it applies
\* ultra and the settings in effect before were not those of ultra; applying
\* ultra again while ultra is in effect schedules nothing.
C24_WelcomeOnFirstActivationOnly ==
    [][ev'.op \in {"gui", "cycle"} =>
          (ev'.welcome <=> (qualityLevel' = "ultra" /\ qualityLevel # "ultra"))]_vars

\* C29: turning battery mode on (GUI control or battery detection) leaves the
\* level at low and the parameters at those derived for low; turning it off
\* changes no level and no parameter.
C29_SetBatterySaving ==
    [][ev'.op \in {"battery", "batteryGui"} =>
          IF batteryMode'
          THEN /\ qualityLevel' = "low"
               /\ uniforms' = UpdateQualitySettings(InitUniforms, "low", isMobile,
                                                    innerWidth, innerHeight)
          ELSE /\ qualityLevel' = qualityLevel
               /\ uniforms' = uniforms]_vars

\* The GUI control has turned battery mode on at ultra.
C29_Witness ==
    /\ ev.op = "batteryGui" /\ batteryMode
    /\ ev.from = "ultra" /\ qualityLevel = "low"

\* C30 (as claimed): when the battery API has reported battery saving, the
\* renderer was created with powerPreference "low-power" and the GUI battery
\* control was initialised to true.
C30_DetectionBeforeInit ==
    (ev.op = "battery" /\ batteryMode)
        => (powerPreference = "low-power" /\ batteryControl)

\* The calls recorded by trackAPICall() within the 60 seconds before now.
C23_Recent == {i \in 1..Len(tracked) : tracked[i] > clock - 60000}

\* C23 (as claimed): at most maxCallsPerMinute API calls are recorded in any
\* 60 seconds, and checkRateLimit() returns true only when fewer than
\* maxCallsPerMinute calls have been recorded in the 60 seconds before it.
C23_RateLimit ==
    /\ Cardinality(C23_Recent) <= maxCallsPerMinute
    /\ factEv.check = "allowed" => Cardinality(C23_Recent) < maxCallsPerMinute

\* C28: a generateCosmicFact call made while isLoadingFact is true returns
\* null and changes neither the cache nor the API status nor the rate limiter;
\* isLoadingFact is true exactly while a call waits for its fetch, so it is
\* false again when a call has finished, on the cache-hit, the API, the
\* static-fallback and the API-error path.
C28_OneGenerationInFlight ==
    [][/\ (factEv'.op = "generate" /\ isLoadingFact)
             => /\ factEv'.result = "null"
                /\ UNCHANGED <<factCache, apiStatus, rateLimit, call, isLoadingFact>>
       /\ isLoadingFact' <=> (call'.pc = "fetch")
       /\ factEv'.result \in {"cached", "api", "static"} => ~isLoadingFact']_vars

\* A call made while another one waits for its fetch has returned null.
C28_Witness ==
    /\ factEv.op = "generate" /\ factEv.result = "null"
    /\ isLoadingFact /\ call.pc = "fetch" /\ factCache # {}

\* C27: a performTransformation trigger received while is_transitioning is
\* true changes no state; shader_index changes only when the last phase of an
\* animation chain completes, from 0 to 1 or from 1 to 0, once for each
\* accepted trigger; is_transitioning becomes false only at that point.
C27_OneTransformationAtATime ==
    [][/\ (shaderEv'.op = "trigger" /\ is_transitioning)
             => UNCHANGED <<is_transitioning, shader_index, transition>>
       /\ shader_index' # shader_index
             => /\ transition.phase = "mix_out" /\ transition'.phase = "idle"
                /\ shader_index' = 1 - shader_index
                /\ is_transitioning /\ ~is_transitioning'
       /\ (is_transitioning /\ ~is_transitioning') => shader_index' # shader_index
       /\ shaderEv'.toggles = shaderEv'.triggers - (IF is_transitioning' THEN 1 ELSE 0)
       /\ shader_index' = shaderEv'.toggles % 2]_vars

\* A trigger has been ignored during the hold of the second transformation
\* (galaxy to tunnel).
C27_Witness ==
    /\ shaderEv.op = "trigger" /\ is_transitioning /\ transition.phase = "hold"
    /\ shader_index = 1 /\ shaderEv.triggers = 2 /\ shaderEv.toggles = 1

\* C25 (as claimed): hasPrompt and isTyping are never both true.
C25_NoPromptWhileTyping == ~(vm.hasPrompt /\ vm.isTyping)

\* C26 (as claimed), in the runs where the prompt has never been open while
\* the author was typing: isTyping is true as long as an author message is
\* queued on msgChain.
C26_TypingUntilAllSent ==
    (/\ ~chatEv.overlap
     /\ \E i \in 1..Len(vm.msgChain) : vm.msgChain[i].kind = "msg") => vm.isTyping

====
